---- MODULE Spec2Model ----
(***************************************************************************)
(* Master-table maintenance of nemo_billing_to_drive.py:                   *)
(* update_master_csv_for_year and update_master_master_csv download the    *)
(* master CSV from Google Drive, drop the rows of the last 40 days, append *)
(* the freshly fetched billing records, drop exact duplicates, and upload  *)
(* the file again.                                                         *)
(*                                                                         *)
(* Time is counted in hours since 2024-01-01 00:00.  A record is           *)
(* [item_id, start, amount]; the start cell is text:                       *)
(*   <<"iso", h, off>>   an ISO timestamp with a UTC offset of off hours   *)
(*                       whose wall-clock reading is hour h,               *)
(*   <<"naive", h, 0>>   "YYYY-MM-DD HH:MM:SS" as pandas writes it,        *)
(*   <<"bad", k, 0>>     the k-th text that is not a timestamp,            *)
(*   <<"empty", 0, 0>>   JSON null / an empty CSV cell.                    *)
(* A record without a start key is a record with an empty start cell: the  *)
(* frame has NaN there, and the code keeps such rows exactly as it keeps   *)
(* rows whose start does not parse.                                        *)
(***************************************************************************)
EXTENDS Integers, Sequences, FiniteSets, TLC

VARIABLES now, drive, pc, part, cutoff_date, fetch_window,
          latest_data, existing, master_file, path, fault, outcome, msgs, runs,
          report,
          tools_data, tool_list_csv, tools_updated, tool_mapping,
          users_data, user_list_csv, users_updated, user_mapping, test_pc,
          batch_now, batch_year, batch_month, total_months_processed,
          total_files_uploaded, processed, batch_pc,
          drive_files, next_file_id, upload_log,
          main_pc, main_steps, monthly_file,
          remote_master, local_csv, race_run, last_upload_by,
          bill_now, bill_year, bill_month, bill_pc, bill_calls, bill_file,
          bill_msgs,
          folders, next_folder_id, returned_ids,
          tool_groups, month_files, month_total, usage_pc,
          stop_event, timer_pc, elapsed, check_pc, request_outcome, console

\* the state of a master-table run, the console counts included
mergeVars == <<now, drive, pc, part, cutoff_date, fetch_window,
               latest_data, existing, master_file, path, fault, outcome, msgs,
               runs, report>>

\* utils.py and test_auto_update.py: the lists the tools and the users API
\* answer with, tool_list.csv and user_list.csv in the working directory,
\* what the update returned, what the load returned, and the position of
\* the test script
listVars == <<tools_data, tool_list_csv, tools_updated, tool_mapping,
              users_data, user_list_csv, users_updated, user_mapping, test_pc>>

\* usage_questions.py, batch_upload_all_months: the clock reading of line
\* 286, the loop variables, the two totals, the months process_month was
\* called for, and where the function is
batchVars == <<batch_now, batch_year, batch_month, total_months_processed,
               total_files_uploaded, processed, batch_pc>>

\* upload_to_drive, file by file: the files of one Drive folder, the id Drive
\* gives to the next file it creates, and per filename what the calls so
\* far returned and uploaded
folderVars == <<drive_files, next_file_id, upload_log>>

\* main of nemo_billing_to_drive.py: the step it is at, the steps it has
\* left with how each ended, and the monthly CSV in the working directory
mainVars == <<main_pc, main_steps, monthly_file>>

\* Two runs of update_master_csv_for_year for one year at the same time:
\* the master on Drive, the file master_filename of each working directory,
\* the locals of each run, and the run whose upload came last
raceVars == <<remote_master, local_csv, race_run, last_upload_by>>

\* batch_upload_all_months of nemo_billing_to_drive.py: datetime.now() as
\* the script read it, the loop's year and month, where the script is, the
\* months process_month was called for, and of the last call the local CSV
\* file and the lines it printed
billVars == <<bill_now, bill_year, bill_month, bill_pc, bill_calls, bill_file,
              bill_msgs>>

\* the folders of the shared drive, the id the next created folder gets, and
\* the ids get_target_folder_path returned for each year and month
dirVars == <<folders, next_folder_id, returned_ids>>

\* process_month of usage_questions.py: the tool names of the month's events,
\* the files of the month folder, the count the function reports, and its
\* position
usageVars == <<tool_groups, month_files, month_total, usage_pc>>

\* check_privileges of priveledge_test.py: the stop event, the position and
\* the counter of the timer thread, the position of the function, the
\* outcome of the request, and the lines printed
timerVars == <<stop_event, timer_pc, elapsed, check_pc, request_outcome,
               console>>

lateVars == <<billVars, dirVars, usageVars, timerVars>>

\* the state of the other scripts
otherVars == <<listVars, batchVars, folderVars, mainVars, raceVars, lateVars>>

vars == <<mergeVars, otherVars>>

----------------------------------------------------------------------------
(* Bounds *)

MaxBatch == 2
MaxRuns == 2
\* records in one answer of the date-filtering API
MaxDated == 1
\* records in one answer of the tools or the users API
MaxList == 2
\* tools with events in one month, each an Excel file to upload
MaxFiles == 2
\* calls of upload_to_drive with one filename that return
MaxUploads == 3

----------------------------------------------------------------------------
(* Calendar *)

HoursPerDay == 24
WindowDays == 40
StartYear == 2024

IsLeap(y) == y % 4 = 0
DaysInYear(y) == IF IsLeap(y) THEN 366 ELSE 365
DaysInMonth(y, m) ==
    IF m = 2 THEN (IF IsLeap(y) THEN 29 ELSE 28)
    ELSE IF m \in {4, 6, 9, 11} THEN 30 ELSE 31

RECURSIVE DaysBeforeYear(_)
DaysBeforeYear(y) ==
    IF y <= StartYear THEN 0 ELSE DaysBeforeYear(y - 1) + DaysInYear(y - 1)

RECURSIVE DaysBeforeMonth(_, _)
DaysBeforeMonth(y, m) ==
    IF m <= 1 THEN 0 ELSE DaysBeforeMonth(y, m - 1) + DaysInMonth(y, m - 1)

\* datetime(y, m, d) plus h hours
Datetime(y, m, d, h) ==
    (DaysBeforeYear(y) + DaysBeforeMonth(y, m) + (d - 1)) * HoursPerDay + h

YearOf(t) ==
    CHOOSE y \in StartYear..(StartYear + 3) :
        /\ Datetime(y, 1, 1, 0) <= t
        /\ t < Datetime(y + 1, 1, 1, 0)

MonthOf(t) ==
    CHOOSE m \in 1..12 :
        /\ Datetime(YearOf(t), m, 1, 0) <= t
        /\ t < Datetime(YearOf(t), m, DaysInMonth(YearOf(t), m) + 1, 0)

\* strftime('%m/%d/%Y'): the time of day is dropped
DateStr(t) == t \div HoursPerDay

----------------------------------------------------------------------------
(* Sample data *)

\* The year main passes to update_master_csv_for_year (start_date.year), and
\* the key of the all-years master
Years == {2025}
ALL == 0
Partitions == Years \cup {ALL}

NowTimes == {Datetime(2025, 2, 5, 12), Datetime(2025, 2, 15, 12)}

Pacific == 0 - 8
Iso(t) == <<"iso", t + Pacific, Pacific>>
BadText(k) == <<"bad", k, 0>>
EmptyCell == <<"empty", 0, 0>>

Rec(i, s, a) == [item_id |-> i, start |-> s, amount |-> a]

\* The records the billing API holds, in the order in which it lists them:
\* one of late December 2024 (inside the 40 days of the first clock reading,
\* before those of the second), one of January 2025 (inside both) and a
\* revised version of it, and one whose start is not a timestamp
ApiListing ==
    << Rec(2, Iso(Datetime(2024, 12, 30, 10)), 1),
       Rec(3, Iso(Datetime(2025, 1, 10, 10)), 1),
       Rec(3, Iso(Datetime(2025, 1, 10, 10)), 2),
       Rec(4, BadText(1), 1) >>

\* A response lists up to MaxBatch records, a record possibly more than once
Batches ==
    UNION { { [i \in 1..k |-> ApiListing[pick[i]]] :
                pick \in { f \in [1..k -> DOMAIN ApiListing] :
                             \A a, b \in 1..k : a <= b => f[a] <= f[b] } } :
            k \in 0..MaxBatch }

\* fetch_billing_data returns None on a request error, else the JSON list
ApiResponses ==
    { [ok |-> FALSE, rows |-> <<>>] } \cup
    { [ok |-> TRUE, rows |-> b] : b \in Batches }

NoFile == [exists |-> FALSE, rows |-> <<>>]
File(rows) == [exists |-> TRUE, rows |-> rows]

----------------------------------------------------------------------------
(* pandas steps of the merge *)

NaT == 0 - 1

\* pd.to_datetime(x, errors='coerce', utc=True), then .values.astype(
\* 'datetime64[ns]'): the instant in UTC without its offset, NaT when the
\* text does not parse
ParseStart(s) ==
    IF s[1] = "iso" THEN s[2] - s[3]
    ELSE IF s[1] = "naive" THEN s[2]
    ELSE NaT

\* DataFrame.to_csv of a datetime64 cell
FormatStart(t) == IF t = NaT THEN EmptyCell ELSE <<"naive", t, 0>>

to_datetime(rows) ==
    [i \in DOMAIN rows |-> [rows[i] EXCEPT !.start = ParseStart(@)]]

\* the filter scoped by year as well: a row of a year other than the
\* current one stays
mask_year_scoped(r, cutoff) ==
    \/ r.start = NaT
    \/ r.start < cutoff
    \/ YearOf(r.start) # YearOf(cutoff + WindowDays * HoursPerDay)

\* the filter without its date test: no row leaves the table
mask_keeps_all(r, cutoff) == r.start = NaT \/ r.start < cutoff \/ r.start >= cutoff

\* mask = existing_df['start'].isna() | (existing_df['start'] < cutoff_date)
mask(r, cutoff) == r.start = NaT \/ r.start < cutoff

apply_mask(frame, cutoff) ==
    SelectSeq(frame, LAMBDA r : mask(r, cutoff))

\* drop_duplicates(subset=['item_id']): one row per natural key
RECURSIVE drop_duplicates_by_id(_)
drop_duplicates_by_id(frame) ==
    IF frame = <<>> THEN <<>>
    ELSE LET init == drop_duplicates_by_id(SubSeq(frame, 1, Len(frame) - 1))
             last == frame[Len(frame)]
         IN IF \E i \in DOMAIN init : init[i].item_id = last.item_id
            THEN init
            ELSE Append(init, last)

\* DataFrame.drop_duplicates(): keep the first of the rows that agree in
\* every column; NaT equals NaT
RECURSIVE drop_duplicates(_)
drop_duplicates(frame) ==
    IF frame = <<>> THEN <<>>
    ELSE LET init == drop_duplicates(SubSeq(frame, 1, Len(frame) - 1))
             last == frame[Len(frame)]
         IN IF \E i \in DOMAIN init : init[i] = last
            THEN init
            ELSE Append(init, last)

\* save_to_csv(combined_df.to_dict('records'), ...) of a frame whose start
\* column is datetime64
to_csv(frame) ==
    [i \in DOMAIN frame |-> [frame[i] EXCEPT !.start = FormatStart(@)]]

\* lines 257-289: the body of the try block once read_csv has succeeded
merge_frames(existing_rows, fresh_rows, cutoff) ==
    LET existing_df == apply_mask(to_datetime(existing_rows), cutoff)
        new_df == to_datetime(fresh_rows)
    IN drop_duplicates(existing_df \o new_df)

\* save_to_csv: False when there is nothing to save or the write fails
save_to_csv(data, write_ok) == data # <<>> /\ write_ok

\* the test without its emptiness half: only None counts as no data
no_data_only_none(resp) == ~resp.ok

\* `if not latest_data`
no_data(resp) == ~resp.ok \/ resp.rows = <<>>

----------------------------------------------------------------------------
(* Fetch window of update_master_csv_for_year, lines 192-216 *)

Cutoff(current) == current - WindowDays * HoursPerDay

\* the window without the branch of line 205: a year that ended before the
\* cutoff is queried from the cutoff to its last day
FetchWindow_no_skip(year, current) ==
    LET cutoff == Cutoff(current)
        year_start == Datetime(year, 1, 1, 0)
        year_end == Datetime(year, 12, 31, 0)
    IN IF year = YearOf(current)
       THEN [skip |-> FALSE, start |-> DateStr(cutoff), end |-> DateStr(current)]
       ELSE IF cutoff < year_start
       THEN [skip |-> FALSE, start |-> DateStr(year_start), end |-> DateStr(year_end)]
       ELSE [skip |-> FALSE, start |-> DateStr(cutoff), end |-> DateStr(year_end)]

FetchWindow(year, current) ==
    LET cutoff == Cutoff(current)
        year_start == Datetime(year, 1, 1, 0)
        year_end == Datetime(year, 12, 31, 0)
    IN IF year = YearOf(current)
       THEN [skip |-> FALSE, start |-> DateStr(cutoff), end |-> DateStr(current)]
       ELSE IF cutoff > year_end
       THEN [skip |-> TRUE, start |-> 0, end |-> 0]
       ELSE IF cutoff < year_start
       THEN [skip |-> FALSE, start |-> DateStr(year_start), end |-> DateStr(year_end)]
       ELSE [skip |-> FALSE, start |-> DateStr(cutoff), end |-> DateStr(year_end)]

\* update_master_master_csv, lines 325-329
FetchWindowAll(current) ==
    [skip |-> FALSE, start |-> DateStr(Cutoff(current)), end |-> DateStr(current)]

----------------------------------------------------------------------------
(* Google Drive *)

\* an upload whose failed request has already truncated the remote file
upload_to_drive_partial(d, p, rows, ok) ==
    [d EXCEPT ![p] = File(IF ok THEN rows ELSE <<>>)]

\* an upload whose failed request has removed the remote file
upload_to_drive_delete(d, p, rows, ok) ==
    [d EXCEPT ![p] = IF ok THEN File(rows) ELSE NoFile]

\* upload_to_drive: update the file when it exists, create it otherwise;
\* a raised request leaves the folder as it was
upload_to_drive(d, p, rows, ok) ==
    IF ok THEN [d EXCEPT ![p] = File(rows)] ELSE d

\* a cleanup that also runs when the upload raised
cleanup_local_file_always(file, uploaded) == NoFile

\* cleanup_local_file runs only when upload_to_drive returned
cleanup_local_file(file, uploaded) ==
    IF uploaded THEN NoFile ELSE file

----------------------------------------------------------------------------
(* utils.py: tool_list.csv and user_list.csv *)

\* A cell read by pd.read_csv: a text, a number, or NaN
NaN == <<"nan", "nan">>
Str(t) == <<"str", t>>
Num(t) == <<"num", t>>

\* pandas' default na_values, as far as the samples go
NaValues == {"", "NA", "N/A", "null", "NaN", "None"}
\* the sample texts that parse as numbers
Numerals == {"42"}

NoCsv == [exists |-> FALSE, columns |-> <<>>, rows |-> <<>>]

\* pd.DataFrame(records).to_csv(path, index=False): a frame built from an
\* empty list has no columns, and the file is one empty line
frame_to_csv(records, columns) ==
    [exists |-> TRUE,
     columns |-> IF records = <<>> THEN <<>> ELSE columns,
     rows |-> records]

\* pd.read_csv of one text column: a cell in na_values is NaN; the others
\* are numbers when all of them parse as numbers, texts otherwise
read_cell(rows, col, i) ==
    LET numeric == \A j \in DOMAIN rows :
                       rows[j][col] \in NaValues \cup Numerals
    IN IF rows[i][col] \in NaValues THEN NaN
       ELSE IF numeric THEN Num(rows[i][col])
       ELSE Str(rows[i][col])

\* records.sort(key=lambda x: x['id']): stable
RECURSIVE sort_by_id(_)
sort_by_id(records) ==
    IF records = <<>> THEN <<>>
    ELSE LET init == sort_by_id(SubSeq(records, 1, Len(records) - 1))
             last == records[Len(records)]
             before == SelectSeq(init, LAMBDA r : r.id <= last.id)
             after == SelectSeq(init, LAMBDA r : r.id > last.id)
         IN before \o <<last>> \o after

\* a dict built row by row: the last row of an id wins
LastOfId(rows, i) == \A j \in DOMAIN rows : j > i => rows[j].id # rows[i].id

Tool(i, n) == [id |-> i, name |-> n]

\* The tools the API holds: one with the id 0, ordinary ones, one without a
\* name, one named "NA" and one named "42"
ApiTools ==
    << Tool(0, "mask-aligner"), Tool(1, "etcher"), Tool(2, ""),
       Tool(2, "NA"), Tool(3, "42"), Tool(1, "etcher-2") >>

User(i, u, f, l, e) ==
    [id |-> i, username |-> u, first_name |-> f, last_name |-> l, email |-> e]

\* The users the API holds: one with the id 0, one with every field, one
\* without names and email, one without a username
ApiUsers ==
    << User(0, "root", "Ro", "Ot", "root@lab"),
       User(3, "bob", "Bo", "B", "bob@lab"),
       User(4, "amy", "", "", ""),
       User(5, "", "Cy", "C", "cy@lab") >>

\* response.json(): up to MaxList records, in any order
ListsOf(listing) ==
    UNION { [1..k -> { listing[i] : i \in DOMAIN listing }] :
            k \in 0..MaxList }

Unloaded == [loaded |-> FALSE, map |-> {}]
Loaded(map) == [loaded |-> TRUE, map |-> map]

\* lines 8-61, called on line 29 of the test; the load follows on line 34
\* when the update returned True
update_tool_list_from_api ==
    /\ test_pc = "tools"
    /\ \E request_ok \in BOOLEAN, write_ok \in BOOLEAN :
        LET tool_records ==
                sort_by_id(SelectSeq(tools_data,
                                     LAMBDA t : t.id # 0 /\ t.name # ""))
            success == request_ok /\ write_ok
        IN /\ tools_updated' = success
           /\ tool_list_csv' =
                  IF success THEN frame_to_csv(tool_records, <<"id", "name">>)
                  ELSE tool_list_csv
           /\ test_pc' = IF success THEN "load_tools" ELSE "users"
    /\ UNCHANGED <<tools_data, tool_mapping>>
    /\ UNCHANGED <<users_data, user_list_csv, users_updated, user_mapping>>
    /\ UNCHANGED <<mergeVars, batchVars, folderVars, mainVars, raceVars, lateVars>>

\* lines 147-160: {} when the file is missing or cannot be parsed
load_tool_list ==
    /\ test_pc = "load_tools"
    /\ tool_mapping' =
          Loaded(IF ~tool_list_csv.exists \/ tool_list_csv.columns = <<>>
                 THEN {}
                 ELSE LET rows == tool_list_csv.rows
                      IN { <<rows[i].id, read_cell(rows, "name", i)>> :
                             i \in { j \in DOMAIN rows :
                                       LastOfId(rows, j) } })
    /\ test_pc' = "users"
    /\ UNCHANGED <<tools_data, tool_list_csv, tools_updated>>
    /\ UNCHANGED <<users_data, user_list_csv, users_updated, user_mapping>>
    /\ UNCHANGED <<mergeVars, batchVars, folderVars, mainVars, raceVars, lateVars>>

\* lines 63-119, called on line 48 of the test; the load follows on line 53
\* when the update returned True
update_user_list_from_api ==
    /\ test_pc = "users"
    /\ \E request_ok \in BOOLEAN, write_ok \in BOOLEAN :
        LET user_records ==
                sort_by_id(SelectSeq(users_data,
                                     LAMBDA u : u.id # 0 /\ u.username # ""))
            success == request_ok /\ write_ok
        IN /\ users_updated' = success
           /\ user_list_csv' =
                  IF success
                  THEN frame_to_csv(user_records,
                                    <<"id", "username", "first_name",
                                      "last_name", "email">>)
                  ELSE user_list_csv
           /\ test_pc' = IF success THEN "load_users" ELSE "end"
    /\ UNCHANGED <<users_data, user_mapping>>
    /\ UNCHANGED <<tools_data, tool_list_csv, tools_updated, tool_mapping>>
    /\ UNCHANGED <<mergeVars, batchVars, folderVars, mainVars, raceVars, lateVars>>

\* f"{first_name} {last_name}".strip(): NaN prints as nan
FullName(first, last) == <<"joined", first, last>>

\* lines 121-146: a NaN is truthy, so a row whose names are both empty
\* gets the full name "nan nan" and not its username
load_user_list ==
    /\ test_pc = "load_users"
    /\ user_mapping' =
          Loaded(IF ~user_list_csv.exists \/ user_list_csv.columns = <<>>
                 THEN {}
                 ELSE LET rows == user_list_csv.rows
                      IN { <<rows[i].id,
                             [username |-> read_cell(rows, "username", i),
                              full_name |->
                                  FullName(read_cell(rows, "first_name", i),
                                           read_cell(rows, "last_name", i)),
                              email |-> read_cell(rows, "email", i)]>> :
                             i \in { j \in DOMAIN rows :
                                       LastOfId(rows, j) } })
    /\ test_pc' = "end"
    /\ UNCHANGED <<users_data, user_list_csv, users_updated>>
    /\ UNCHANGED <<tools_data, tool_list_csv, tools_updated, tool_mapping>>
    /\ UNCHANGED <<mergeVars, batchVars, folderVars, mainVars, raceVars, lateVars>>

\* a working directory without the two files
NoLists ==
    /\ tool_list_csv = NoCsv
    /\ tools_updated = FALSE
    /\ tool_mapping = Unloaded
    /\ user_list_csv = NoCsv
    /\ users_updated = FALSE
    /\ user_mapping = Unloaded
    /\ test_pc = "tools"

ListInit ==
    /\ tools_data = <<>>
    /\ users_data = <<>>
    /\ NoLists

----------------------------------------------------------------------------
(* usage_questions.py: batch_upload_all_months *)

\* datetime.now() on line 286: a run in February 2024 and one in January
\* 2025, whose loop passes a December
BatchNows == {Datetime(2024, 2, 15, 12), Datetime(2025, 1, 15, 12)}

\* What process_month returns: None when the fetch gave None or no event
\* (lines 200-203), else the number of files whose upload did not raise
NoneValue == 0 - 1
process_month_results == {NoneValue} \cup (0..MaxFiles)

\* the while condition of line 294
InRange ==
    \/ batch_year < YearOf(batch_now)
    \/ batch_year = YearOf(batch_now) /\ batch_month <= MonthOf(batch_now)

\* Lines 294-315, one pass of the loop.  get_target_folder_path raises when
\* a Drive request fails; total_files_uploaded += None raises TypeError,
\* and nothing catches either.
batch_upload_month ==
    /\ batch_pc = "loop"
    /\ InRange
    /\ \E folder_ok \in BOOLEAN, files_uploaded \in process_month_results :
        IF ~folder_ok
        THEN /\ batch_pc' = "HttpError"
             /\ UNCHANGED <<batch_year, batch_month, total_months_processed,
                            total_files_uploaded, processed>>
        ELSE IF files_uploaded = NoneValue
        THEN /\ batch_pc' = "TypeError"
             /\ processed' = Append(processed, <<batch_year, batch_month>>)
             /\ UNCHANGED <<batch_year, batch_month, total_months_processed,
                            total_files_uploaded>>
        ELSE /\ processed' = Append(processed, <<batch_year, batch_month>>)
             /\ total_files_uploaded' = total_files_uploaded + files_uploaded
             /\ total_months_processed' = total_months_processed + 1
             /\ batch_year' = IF batch_month = 12 THEN batch_year + 1
                              ELSE batch_year
             /\ batch_month' = IF batch_month = 12 THEN 1 ELSE batch_month + 1
             /\ UNCHANGED batch_pc
    /\ UNCHANGED batch_now
    /\ UNCHANGED <<mergeVars, listVars, folderVars, mainVars, raceVars, lateVars>>

\* Lines 317-324: the loop is over and the summary is printed
batch_upload_summary ==
    /\ batch_pc = "loop"
    /\ ~InRange
    /\ batch_pc' = "summary"
    /\ UNCHANGED <<batch_now, batch_year, batch_month, total_months_processed,
                   total_files_uploaded, processed>>
    /\ UNCHANGED <<mergeVars, listVars, folderVars, mainVars, raceVars, lateVars>>

\* lines 286-290
BatchStart ==
    /\ batch_year = 2024
    /\ batch_month = 1
    /\ total_months_processed = 0
    /\ total_files_uploaded = 0
    /\ processed = <<>>
    /\ batch_pc = "loop"

BatchInit == batch_now = Datetime(2024, 2, 15, 12) /\ BatchStart

----------------------------------------------------------------------------
(* upload_to_drive on the files of one folder                             *)
(* (nemo_billing_to_drive.py 53-91, usage_questions.py 77-115)            *)

DriveFile(i, n, c) == [id |-> i, name |-> n, content |-> c]

MonthlyName == "billing_data_2025_02.csv"
FileNames == {"billing_data_2025_master.csv", "etcher_2025_01.xlsx",
              MonthlyName}
Contents == {1, 2}

\* files().list(q="name='...' and '...' in parents")
files_named(files, filename) == { f \in files : f.name = filename }

\* an upload that creates a file whether or not one of the name exists
upload_always_creates(files, filename, content, first, fresh_id) ==
    [files |-> files \cup {DriveFile(fresh_id, filename, content)},
     id |-> fresh_id]

\* Lines 61-91: update files[0] when the listing is not empty, else create
\* a file, to which Drive gives the id fresh_id; the id is returned.
\* first is files[0] and matters only when the listing is not empty.
upload_files(files, filename, content, first, fresh_id) ==
    IF files_named(files, filename) # {}
    THEN [files |-> (files \ {first})
                      \cup {DriveFile(first.id, filename, content)},
          id |-> first.id]
    ELSE [files |-> files \cup {DriveFile(fresh_id, filename, content)},
          id |-> fresh_id]

NotUploaded == [ids |-> {}, content |-> 0, n |-> 0]

\* A call of upload_to_drive.  A request that raises (the listing, the
\* update or the create) leaves the folder as it was.
UploadFile(filename, content, ok) ==
    \E first \in IF files_named(drive_files, filename) = {}
                  THEN {DriveFile(0, filename, 0)}
                  ELSE files_named(drive_files, filename) :
        LET result == upload_files(drive_files, filename, content, first,
                                   next_file_id)
        IN IF ~ok
           THEN UNCHANGED <<drive_files, next_file_id, upload_log>>
           ELSE /\ drive_files' = result.files
                /\ next_file_id' = IF result.id = next_file_id
                                   THEN next_file_id + 1
                                   ELSE next_file_id
                /\ upload_log' =
                       [upload_log EXCEPT ![filename] =
                           [ids |-> @.ids \cup {result.id},
                            content |-> content,
                            n |-> @.n + 1]]

\* One call by the single writer
upload_to_drive_call ==
    /\ \E filename \in FileNames, content \in Contents, ok \in BOOLEAN :
        /\ upload_log[filename].n < MaxUploads
        /\ UploadFile(filename, content, ok)
    /\ UNCHANGED <<mergeVars, listVars, batchVars, mainVars, raceVars, lateVars>>

\* an empty folder
FolderInit ==
    /\ drive_files = {}
    /\ next_file_id = 1
    /\ upload_log = [n \in FileNames |-> NotUploaded]

\* main has not started
MainInit ==
    /\ main_pc = "fetch"
    /\ main_steps = <<>>
    /\ monthly_file = "none"

----------------------------------------------------------------------------
(* Two runs of update_master_csv_for_year for the same year, lines 222-310 *)

Runs == {1, 2}
Dirs == {1, 2}

\* the master both runs find: one row older than the 40 days
OldMaster == File(<<Rec(1, Iso(Datetime(2024, 11, 1, 10)), 1)>>)

\* what the API answers a run: the January record or its revised version
RaceBatches == { <<ApiListing[2]>>, <<ApiListing[3]>> }

NotStarted(dir) ==
    [pc |-> "fetch", dir |-> dir, latest |-> <<>>, found |-> FALSE,
     downloaded |-> NoFile, combined |-> <<>>]

\* line 222
race_fetch(p) ==
    /\ race_run[p].pc = "fetch"
    /\ \E batch \in RaceBatches :
        race_run' = [race_run EXCEPT ![p].latest = batch, ![p].pc = "list"]
    /\ UNCHANGED <<remote_master, local_csv, last_upload_by>>
    /\ UNCHANGED <<mergeVars, listVars, batchVars, folderVars, mainVars,
                   lateVars>>

\* lines 239-243
race_list(p) ==
    /\ race_run[p].pc = "list"
    /\ race_run' = [race_run EXCEPT ![p].found = remote_master.exists,
                          ![p].pc = IF remote_master.exists THEN "download"
                                    ELSE "save",
                          ![p].combined = race_run[p].latest]
    /\ UNCHANGED <<remote_master, local_csv, last_upload_by>>
    /\ UNCHANGED <<mergeVars, listVars, batchVars, folderVars, mainVars,
                   lateVars>>

\* lines 246-250: the master is written to master_filename in the working
\* directory
race_download(p) ==
    /\ race_run[p].pc = "download"
    /\ local_csv' = [local_csv EXCEPT ![race_run[p].dir] = remote_master]
    /\ race_run' = [race_run EXCEPT ![p].downloaded = remote_master, ![p].pc = "read"]
    /\ UNCHANGED <<remote_master, last_upload_by>>
    /\ UNCHANGED <<mergeVars, listVars, batchVars, folderVars, mainVars,
                   lateVars>>

\* lines 253-295: read master_filename and merge; when the file is gone
\* read_csv raises and the batch alone is the new table
race_read(p) ==
    /\ race_run[p].pc = "read"
    /\ LET file == local_csv[race_run[p].dir]
       IN race_run' = [race_run EXCEPT
                    ![p].combined =
                        IF file.exists
                        THEN to_csv(merge_frames(file.rows, race_run[p].latest,
                                                 Cutoff(now)))
                        ELSE race_run[p].latest,
                    ![p].pc = "save"]
    /\ UNCHANGED <<remote_master, local_csv, last_upload_by>>
    /\ UNCHANGED <<mergeVars, listVars, batchVars, folderVars, mainVars,
                   lateVars>>

\* line 302
race_save(p) ==
    /\ race_run[p].pc = "save"
    /\ local_csv' = [local_csv EXCEPT ![race_run[p].dir] = File(race_run[p].combined)]
    /\ race_run' = [race_run EXCEPT ![p].pc = "upload"]
    /\ UNCHANGED <<remote_master, last_upload_by>>
    /\ UNCHANGED <<mergeVars, listVars, batchVars, folderVars, mainVars,
                   lateVars>>

\* lines 306 and 309-310: the file master_filename is uploaded as it is now;
\* when it is gone MediaFileUpload raises, which is printed, and nothing is
\* uploaded or removed
race_upload(p) ==
    /\ race_run[p].pc = "upload"
    /\ LET file == local_csv[race_run[p].dir]
       IN IF file.exists
          THEN /\ remote_master' = file
               /\ last_upload_by' = p
               /\ race_run' = [race_run EXCEPT ![p].pc = "cleanup"]
          ELSE /\ race_run' = [race_run EXCEPT ![p].pc = "done"]
               /\ UNCHANGED <<remote_master, last_upload_by>>
    /\ UNCHANGED local_csv
    /\ UNCHANGED <<mergeVars, listVars, batchVars, folderVars, mainVars,
                   lateVars>>

\* line 307
race_cleanup(p) ==
    /\ race_run[p].pc = "cleanup"
    /\ local_csv' = [local_csv EXCEPT ![race_run[p].dir] = NoFile]
    /\ race_run' = [race_run EXCEPT ![p].pc = "done"]
    /\ UNCHANGED <<remote_master, last_upload_by>>
    /\ UNCHANGED <<mergeVars, listVars, batchVars, folderVars, mainVars,
                   lateVars>>



\* no run has started
RaceInit ==
    /\ remote_master = OldMaster
    /\ local_csv = [d \in Dirs |-> NoFile]
    /\ race_run = [p \in Runs |-> NotStarted(1)]
    /\ last_upload_by = 0

----------------------------------------------------------------------------
(* nemo_billing_to_drive.py: batch_upload_all_months and process_month *)

\* what fetch_billing_data answers for a month: None, no record, one record
BillResponses ==
    { [ok |-> FALSE, rows |-> <<>>], [ok |-> TRUE, rows |-> <<>>],
      [ok |-> TRUE, rows |-> <<ApiListing[1]>>] }

\* process_month, lines 160-185: the local CSV file when the function has
\* returned and the lines it printed.  A raised upload is printed and
\* swallowed (lines 184-185) and cleanup_local_file is skipped.
process_month(resp, save_ok, upload_ok) ==
    IF no_data(resp)
    THEN [file |-> NoFile, msgs |-> {"No data, skipping upload"}]
    ELSE IF ~save_to_csv(resp.rows, save_ok)
    THEN [file |-> NoFile,
          msgs |-> {"Error saving to CSV", "Failed to save data"}]
    ELSE [file |-> cleanup_local_file(File(resp.rows), upload_ok),
          msgs |-> {"Data saved"} \cup
                   (IF upload_ok THEN {"Uploaded and cleaned up"}
                    ELSE {"Error uploading"})]

\* lines 556-572: the script starts; without the token, the drive id or the
\* credentials it prints an error and returns
batch_upload_all_months ==
    /\ bill_pc = "idle"
    /\ \E env_ok \in BOOLEAN :
        bill_pc' = IF env_ok THEN "loop" ELSE "returned"
    /\ bill_year' = 2024
    /\ bill_month' = 1
    /\ UNCHANGED <<bill_now, bill_calls, bill_file, bill_msgs>>
    /\ UNCHANGED <<mergeVars, listVars, batchVars, folderVars, mainVars,
                   raceVars, dirVars, usageVars, timerVars>>

\* a month step without the turn of the year
next_month_same_year(year, month) == <<year, month + 1>>

\* lines 579-583
next_month(year, month) ==
    IF month = 12 THEN <<year + 1, 1>> ELSE <<year, month + 1>>

\* the while condition of line 574
BillInRange ==
    \/ bill_year < YearOf(bill_now)
    \/ bill_year = YearOf(bill_now) /\ bill_month <= MonthOf(bill_now)

\* Lines 574-583, one pass of the loop.  A Drive request of
\* get_target_folder_path that fails raises, and nothing catches it.
bill_month_pass ==
    /\ bill_pc = "loop"
    /\ BillInRange
    /\ \E folder_ok \in BOOLEAN, resp \in BillResponses,
          save_ok \in BOOLEAN, upload_ok \in BOOLEAN :
        IF ~folder_ok
        THEN /\ bill_pc' = "HttpError"
             /\ UNCHANGED <<bill_year, bill_month, bill_calls, bill_file,
                            bill_msgs>>
        ELSE LET done == process_month(resp, save_ok, upload_ok)
             IN /\ bill_calls' = Append(bill_calls, <<bill_year, bill_month>>)
                /\ bill_file' = done.file
                /\ bill_msgs' = done.msgs
                /\ bill_year' = next_month(bill_year, bill_month)[1]
                /\ bill_month' = next_month(bill_year, bill_month)[2]
                /\ UNCHANGED bill_pc
    /\ UNCHANGED bill_now
    /\ UNCHANGED <<mergeVars, listVars, batchVars, folderVars, mainVars,
                   raceVars, dirVars, usageVars, timerVars>>

\* line 584
batch_upload_complete ==
    /\ bill_pc = "loop"
    /\ ~BillInRange
    /\ bill_pc' = "complete"
    /\ UNCHANGED <<bill_now, bill_year, bill_month, bill_calls, bill_file,
                   bill_msgs>>
    /\ UNCHANGED <<mergeVars, listVars, batchVars, folderVars, mainVars,
                   raceVars, dirVars, usageVars, timerVars>>

\* the script has not started
BillStart ==
    /\ bill_year = 2024
    /\ bill_month = 1
    /\ bill_pc = "idle"
    /\ bill_calls = <<>>
    /\ bill_file = NoFile
    /\ bill_msgs = {}

BillInit == bill_now = Datetime(2024, 2, 15, 12) /\ BillStart

----------------------------------------------------------------------------
(* get_or_create_folder and get_target_folder_path, utils.py lines 461-506 *)

MaxLookups == 2

\* shared_drive_id
SharedDrive == 0

FolderYears == {2024, 2025}
FolderMonths == {1, 2}
FolderKeys == FolderYears \X FolderMonths

Folder(id, parent, name) == [id |-> id, parent |-> parent, name |-> name]

\* str(year)
YearFolderName(year) == IF year = 2024 THEN "2024" ELSE "2025"

\* f"{month:02d}"
MonthFolderName(month) == IF month = 1 THEN "01" ELSE "02"

\* files().list(q="name='...' and '...' in parents and mimeType=folder")
folders_named(fs, parent, name) ==
    { f \in fs : f.parent = parent /\ f.name = name }

\* a lookup that never finds the folder
get_or_create_folder_new(fs, next_id, parent, name) ==
    [id |-> next_id, folders |-> fs \cup {Folder(next_id, parent, name)},
     next |-> next_id + 1]

\* Lines 478-506: the id of the first folder listed, else of a folder that
\* is created.  The listing is taken in the order of the ids.
get_or_create_folder(fs, next_id, parent, name) ==
    LET files == folders_named(fs, parent, name)
    IN IF files # {}
       THEN [id |-> (CHOOSE f \in files : \A g \in files : f.id <= g.id).id,
             folders |-> fs, next |-> next_id]
       ELSE [id |-> next_id,
             folders |-> fs \cup {Folder(next_id, parent, name)},
             next |-> next_id + 1]

\* Lines 461-475: Year/Usage_Events/Month.  A Drive request that fails
\* raises out of the function; the folders created before it stay.
\* failed is the number of the get_or_create_folder call that raises, 0
\* when none does.
get_target_folder_path(year, month, failed) ==
    LET y == get_or_create_folder(folders, next_folder_id, SharedDrive,
                                  YearFolderName(year))
        u == get_or_create_folder(y.folders, y.next, y.id, "Usage_Events")
        m == get_or_create_folder(u.folders, u.next, u.id,
                                  MonthFolderName(month))
        last == CASE failed = 0 -> m
                  [] failed = 1 -> [folders |-> folders,
                                    next |-> next_folder_id]
                  [] failed = 2 -> y
                  [] failed = 3 -> u
    IN /\ folders' = last.folders
       /\ next_folder_id' = last.next
       /\ returned_ids' =
              IF failed = 0
              THEN [returned_ids EXCEPT ![<<year, month>>] = Append(@, m.id)]
              ELSE returned_ids

get_target_folder_path_call ==
    /\ \E year \in FolderYears, month \in FolderMonths, failed \in 0..3 :
        /\ Len(returned_ids[<<year, month>>]) < MaxLookups
        /\ get_target_folder_path(year, month, failed)
    /\ UNCHANGED <<mergeVars, listVars, batchVars, folderVars, mainVars,
                   raceVars, billVars, usageVars, timerVars>>

\* an empty shared drive
DirInit ==
    /\ folders = {}
    /\ next_folder_id = 1
    /\ returned_ids = [k \in FolderKeys |-> <<>>]

----------------------------------------------------------------------------
(* usage_questions.py: process_month, lines 188-235 *)

MaxTools == 2

\* A tool name is a sequence of characters
Alnum == {"A", "B", "1"}
ToolNames ==
    { <<"A", "1">>, <<"A", "/", "1">>, <<"A", " ", "1">>, <<"A", "_", "1">>,
      <<"B", "1">> }

\* str.rstrip()
RECURSIVE rstrip(_)
rstrip(name) ==
    IF name # <<>> /\ name[Len(name)] = " "
    THEN rstrip(SubSeq(name, 1, Len(name) - 1))
    ELSE name

\* str.replace(' ', '_')
replace_spaces(name) ==
    [i \in DOMAIN name |-> IF name[i] = " " THEN "_" ELSE name[i]]

\* c.isalnum() or c in (' ', '-', '_')
IsSafeChar(c) == c \in Alnum \/ c \in {" ", "-", "_"}

\* a file name that keeps every character of the tool name
safe_tool_name_unchanged(tool_name) == tool_name

\* lines 214-215
safe_tool_name(tool_name) ==
    replace_spaces(rstrip(SelectSeq(tool_name, IsSafeChar)))

\* line 218, for January 2024
ExcelName(tool_name) == safe_tool_name(tool_name) \o <<"_2024_01.xlsx">>

\* The keys of tool_groups, utils.split_data_by_tool: the distinct tool
\* names of the month's events in the order of their first event
ToolGroups ==
    UNION { { g \in [1..k -> ToolNames] :
                \A a, b \in 1..k : a # b => g[a] # g[b] } : k \in 0..MaxTools }

\* files().update when the folder holds the name, files().create otherwise
month_upload(files, filename, tool_name) ==
    { f \in files : f.name # filename } \cup
    { [name |-> filename, tool |-> tool_name] }

\* Lines 200-203: no event in the month
usage_no_data ==
    /\ usage_pc = 0
    /\ tool_groups = <<>>
    /\ usage_pc' = NoneValue
    /\ UNCHANGED <<tool_groups, month_files, month_total>>
    /\ UNCHANGED <<mergeVars, listVars, batchVars, folderVars, mainVars,
                   raceVars, billVars, dirVars, timerVars>>

\* Lines 209-232, one tool group: save it, upload it, count it when the
\* upload returned
usage_tool_group ==
    /\ usage_pc >= 0
    /\ usage_pc < Len(tool_groups)
    /\ \E save_ok \in BOOLEAN, upload_ok \in BOOLEAN :
        LET tool_name == tool_groups[usage_pc + 1]
        IN IF save_ok /\ upload_ok
           THEN /\ month_files' = month_upload(month_files,
                                               ExcelName(tool_name), tool_name)
                /\ month_total' = month_total + 1
           ELSE UNCHANGED <<month_files, month_total>>
    /\ usage_pc' = usage_pc + 1
    /\ UNCHANGED tool_groups
    /\ UNCHANGED <<mergeVars, listVars, batchVars, folderVars, mainVars,
                   raceVars, billVars, dirVars, timerVars>>

\* lines 234-235: the total is printed and returned
usage_return ==
    /\ usage_pc = Len(tool_groups)
    /\ tool_groups # <<>>
    /\ usage_pc' = Len(tool_groups) + 1
    /\ UNCHANGED <<tool_groups, month_files, month_total>>
    /\ UNCHANGED <<mergeVars, listVars, batchVars, folderVars, mainVars,
                   raceVars, billVars, dirVars, timerVars>>

UsageStart ==
    /\ month_files = {}
    /\ month_total = 0
    /\ usage_pc = 0

\* a month without events in an empty month folder
UsageInit == tool_groups = <<>> /\ UsageStart

----------------------------------------------------------------------------
(* priveledge_test.py: check_privileges and its timer thread *)

MaxTicks == 3

\* requests.head returns a response with status 200 or another status, or
\* raises Timeout or another RequestException
RequestOutcomes == {"200", "other status", "Timeout", "RequestException"}

\* the line that reports the outcome, lines 44, 47, 54 and 58
OutcomeLine(o) ==
    CASE o = "200" -> "Token has access to reservations API"
      [] o = "other status" -> "Token does not have sufficient privileges"
      [] o = "Timeout" -> "Request timed out"
      [] o = "RequestException" -> "Error making request"

\* a join that returns while the thread is still running
join_returns_at_once(thread_pc) == TRUE

\* timer_thread.join() returns when the thread has ended
join_returns(thread_pc) == thread_pc = "ended"

\* lines 9-15 and 33-35: without the token the function returns, else the
\* timer thread is started
check_start ==
    /\ check_pc = "start"
    /\ \E token \in BOOLEAN :
        IF token
        THEN check_pc' = "request" /\ timer_pc' = "while"
        ELSE check_pc' = "returned" /\ UNCHANGED timer_pc
    /\ UNCHANGED <<stop_event, elapsed, request_outcome, console>>
    /\ UNCHANGED <<mergeVars, listVars, batchVars, folderVars, mainVars,
                   raceVars, billVars, dirVars, usageVars>>

\* line 39
check_request ==
    /\ check_pc = "request"
    /\ \E o \in RequestOutcomes : request_outcome' = o
    /\ check_pc' = "set"
    /\ UNCHANGED <<stop_event, timer_pc, elapsed, console>>
    /\ UNCHANGED <<mergeVars, listVars, batchVars, folderVars, mainVars,
                   raceVars, billVars, dirVars, usageVars>>

\* lines 40, 52 and 56
check_set ==
    /\ check_pc = "set"
    /\ stop_event' = TRUE
    /\ check_pc' = "join"
    /\ UNCHANGED <<timer_pc, elapsed, request_outcome, console>>
    /\ UNCHANGED <<mergeVars, listVars, batchVars, folderVars, mainVars,
                   raceVars, billVars, dirVars, usageVars>>

\* lines 41, 53 and 57
check_join ==
    /\ check_pc = "join"
    /\ join_returns(timer_pc)
    /\ check_pc' = "report"
    /\ UNCHANGED <<stop_event, timer_pc, elapsed, request_outcome, console>>
    /\ UNCHANGED <<mergeVars, listVars, batchVars, folderVars, mainVars,
                   raceVars, billVars, dirVars, usageVars>>

\* lines 43-49, 54 and 58
check_report ==
    /\ check_pc = "report"
    /\ console' = Append(console, OutcomeLine(request_outcome))
    /\ check_pc' = "returned"
    /\ UNCHANGED <<stop_event, timer_pc, elapsed, request_outcome>>
    /\ UNCHANGED <<mergeVars, listVars, batchVars, folderVars, mainVars,
                   raceVars, billVars, dirVars, usageVars>>

\* line 28: the test of the while loop
timer_while ==
    /\ timer_pc = "while"
    /\ stop_event \/ elapsed < 2 * MaxTicks
    /\ timer_pc' = IF stop_event THEN "ended" ELSE "sleep"
    /\ UNCHANGED <<stop_event, elapsed, check_pc, request_outcome, console>>
    /\ UNCHANGED <<mergeVars, listVars, batchVars, folderVars, mainVars,
                   raceVars, billVars, dirVars, usageVars>>

\* lines 29-31: the sleep is over, the line is printed
timer_print ==
    /\ timer_pc = "sleep"
    /\ elapsed' = elapsed + 2
    /\ console' = Append(console, "...waiting")
    /\ timer_pc' = "while"
    /\ UNCHANGED <<stop_event, check_pc, request_outcome>>
    /\ UNCHANGED <<mergeVars, listVars, batchVars, folderVars, mainVars,
                   raceVars, billVars, dirVars, usageVars>>

\* check_privileges has not been called
TimerInit ==
    /\ stop_event = FALSE
    /\ timer_pc = "not started"
    /\ elapsed = 0
    /\ check_pc = "start"
    /\ request_outcome = "none"
    /\ console = <<>>

LateInit == BillInit /\ DirInit /\ UsageInit /\ TimerInit

OtherInit ==
    ListInit /\ BatchInit /\ FolderInit /\ MainInit /\ RaceInit /\ LateInit

----------------------------------------------------------------------------

NoResponse == [ok |-> FALSE, rows |-> <<>>]

MergeInit ==
    /\ now = Datetime(2025, 2, 5, 12)
    /\ drive = [p \in Partitions |-> NoFile]
    /\ pc = "idle"
    /\ part = ALL
    /\ cutoff_date = 0
    /\ fetch_window = [skip |-> FALSE, start |-> 0, end |-> 0]
    /\ latest_data = NoResponse
    /\ existing = NoFile
    /\ master_file = NoFile
    /\ path = "none"
    /\ fault = "none"
    /\ outcome = "none"
    /\ msgs = {}
    /\ runs = 0
    /\ report = {}

Init == MergeInit /\ OtherInit

\* datetime.now() as read by a later run
AdvanceClock ==
    /\ pc = "idle"
    /\ \E t \in NowTimes : t > now /\ now' = t
    /\ UNCHANGED <<drive, pc, part, cutoff_date, fetch_window,
                   latest_data, existing, master_file, path, fault, outcome,
                   msgs, runs, report>>
    /\ UNCHANGED otherVars

\* The function is left (by return or by an exception) before the upload
Leave(p, w, resp, how, why, result, said) ==
    /\ pc' = "done"
    /\ part' = p
    /\ cutoff_date' = Cutoff(now)
    /\ fetch_window' = w
    /\ latest_data' = resp
    /\ existing' = NoFile
    /\ path' = how
    /\ fault' = why
    /\ outcome' = result
    /\ msgs' = said
    /\ runs' = runs + 1
    /\ UNCHANGED <<now, drive>>

MergeMsgs(found, merged) ==
    IF ~found THEN {"Creating new master CSV"}
    ELSE IF merged THEN {"Removed records", "Combined data"}
    ELSE {"Error reading existing CSV, creating new one"}

\* a removed count that reports the rows kept
removed_count_kept(initial_count, kept) == kept

\* removed_count = initial_count - len(existing_df), line 273
removed_count(initial_count, kept) == initial_count - kept

\* The numbers the try block prints (lines 255, 274 and 291), up to the step
\* that raises
MergeReport(found, exc, existing_rows, fresh_rows, cutoff) ==
    IF ~found \/ exc = "read_csv" THEN {}
    ELSE LET existing_df == to_datetime(existing_rows)
             kept == apply_mask(existing_df, cutoff)
             loaded ==
                 { <<"Loaded existing master CSV", Len(existing_rows)>>,
                   <<"Removed", removed_count(Len(existing_df), Len(kept))>> }
         IN IF exc = "drop_duplicates" THEN loaded
            ELSE loaded \cup
                 { <<"Combined total",
                     Len(merge_frames(existing_rows, fresh_rows, cutoff))>>,
                   <<"Combined new", Len(fresh_rows)>> }

\* Lines 222-302 (year) and 332-409 (all years): fetch, look the master up,
\* download it, merge, save the CSV locally.  exc names the step of the try
\* block that raises: pd.read_csv on a file it cannot parse, or
\* drop_duplicates on a batch holding a list-valued (unhashable) field.
\* responses are the answers the API can give to the query of window w.
MergeAndSaveFrom(p, w, responses) ==
    \E resp \in responses, download_ok \in BOOLEAN, save_ok \in BOOLEAN,
       exc \in {"none", "read_csv", "drop_duplicates"} :
        LET found == drive[p].exists
            merged == found /\ exc = "none"
            combined ==
                IF merged
                THEN to_csv(merge_frames(drive[p].rows, resp.rows, Cutoff(now)))
                ELSE resp.rows
            counts == MergeReport(found, exc, drive[p].rows, resp.rows,
                                  Cutoff(now))
        IN IF no_data(resp)
           THEN /\ Leave(p, w, resp, "nodata", "none", "returned",
                         {"No new data found"})
                /\ report' = {}
                /\ UNCHANGED master_file
           ELSE IF found /\ ~download_ok
           THEN \* request.execute() raises outside the try block, after
                \* open() has created the local file
                /\ Leave(p, w, resp, "download", "download", "raised",
                         {"Downloading existing master CSV"})
                /\ report' = {}
                /\ master_file' = File(<<>>)
           ELSE IF ~save_to_csv(combined, save_ok)
           THEN /\ Leave(p, w, resp,
                         IF ~found THEN "created"
                         ELSE IF merged THEN "merged" ELSE "fallback",
                         IF found THEN exc ELSE "none", "returned",
                         MergeMsgs(found, merged)
                             \cup {"Failed to update master CSV"})
                /\ report' = counts
                /\ master_file' = IF found THEN drive[p] ELSE NoFile
           ELSE /\ pc' = "upload"
                /\ part' = p
                /\ cutoff_date' = Cutoff(now)
                /\ fetch_window' = w
                /\ latest_data' = resp
                /\ existing' = drive[p]
                /\ master_file' = File(combined)
                /\ path' = IF ~found THEN "created"
                           ELSE IF merged THEN "merged" ELSE "fallback"
                /\ fault' = IF found THEN exc ELSE "none"
                /\ outcome' = "none"
                /\ msgs' = MergeMsgs(found, merged) \cup {"Master CSV updated"}
                /\ runs' = runs + 1
                /\ report' = counts \cup
                             { <<"Master CSV updated", Len(combined)>> }
                /\ UNCHANGED <<now, drive>>

\* the API answers a query with any of its records
MergeAndSave(p, w) == MergeAndSaveFrom(p, w, ApiResponses)

\* Lines 196-216 of update_master_csv_for_year, then the rest of the
\* function
UpdateYear(year, responses) ==
    /\ pc = "idle"
    /\ runs < MaxRuns
    /\ LET w == FetchWindow(year, now)
       IN IF w.skip
          THEN /\ Leave(year, w, NoResponse, "skip", "none", "returned",
                        {"skipping update"})
               /\ report' = {}
               /\ UNCHANGED master_file
          ELSE MergeAndSaveFrom(year, w, responses)
    /\ UNCHANGED otherVars

update_master_csv_for_year(year) == UpdateYear(year, ApiResponses)

update_master_master_csv ==
    /\ pc = "idle"
    /\ runs < MaxRuns
    /\ MergeAndSave(ALL, FetchWindowAll(now))
    /\ UNCHANGED otherVars

\* Lines 305-310 and 412-417: upload, then delete the local file; a raised
\* upload is printed and swallowed, and the local file stays
Upload ==
    /\ pc = "upload"
    /\ \E ok \in BOOLEAN :
        /\ drive' = upload_to_drive(drive, part, master_file.rows, ok)
        /\ master_file' = cleanup_local_file(master_file, ok)
        /\ msgs' = msgs \cup {IF ok THEN "Master CSV uploaded successfully"
                              ELSE "Error uploading master CSV"}
                        \cup (IF ~ok THEN {}
                              ELSE IF drive[part].exists
                              THEN {"File updated in Google Drive"}
                              ELSE {"File uploaded to Google Drive"})
    /\ pc' = "done"
    /\ outcome' = "returned"
    /\ UNCHANGED <<now, part, cutoff_date, fetch_window, latest_data,
                   existing, path, fault, runs, report>>
    /\ UNCHANGED otherVars

\* The script ends: its locals and its console output are gone and Drive
\* stays.  A local CSV left behind is never read again: a later run
\* overwrites it (lines 249 and 128) before it reads it (line 254).
ExitRun ==
    /\ pc = "done"
    /\ pc' = "idle"
    /\ part' = ALL
    /\ cutoff_date' = 0
    /\ fetch_window' = [skip |-> FALSE, start |-> 0, end |-> 0]
    /\ latest_data' = NoResponse
    /\ existing' = NoFile
    /\ master_file' = NoFile
    /\ path' = "none"
    /\ fault' = "none"
    /\ outcome' = "none"
    /\ msgs' = {}
    /\ report' = {}
    /\ UNCHANGED <<now, drive, runs>>

Exit == ExitRun /\ UNCHANGED otherVars

----------------------------------------------------------------------------
(* The year masters under an API that answers a query with records of the *)
(* queried dates only, and the scripts that build a master from scratch   *)

YearPartitions == {2024, 2025, ALL}

\* The records the API holds: one that started in the small hours of
\* 27 December 2024 and a revised version of it, and one of January 2025
DatedListing ==
    << Rec(5, Iso(Datetime(2024, 12, 27, 10)), 1),
       Rec(5, Iso(Datetime(2024, 12, 27, 10)), 2),
       Rec(6, Iso(Datetime(2025, 1, 20, 10)), 1) >>

\* params start/end of fetch_billing_data: the record's wall-clock day lies
\* between the two dates, both included
InWindow(r, w) ==
    /\ r.start[1] = "iso"
    /\ w.start <= DateStr(r.start[2])
    /\ DateStr(r.start[2]) <= w.end

DatedBatches(w) ==
    UNION { { [i \in 1..k |-> DatedListing[pick[i]]] :
                pick \in { f \in [1..k -> DOMAIN DatedListing] :
                             /\ \A a, b \in 1..k : a <= b => f[a] <= f[b]
                             /\ \A a \in 1..k :
                                    InWindow(DatedListing[f[a]], w) } } :
            k \in 0..MaxDated }

DatedResponses(w) ==
    { [ok |-> FALSE, rows |-> <<>>] } \cup
    { [ok |-> TRUE, rows |-> b] : b \in DatedBatches(w) }

\* lines 506-509
MaxMonth(year, current) ==
    IF year = YearOf(current) THEN MonthOf(current) ELSE 12

\* lines 512-519: the first and the last day of the month
MonthWindow(year, month) ==
    [skip |-> FALSE,
     start |-> DateStr(Datetime(year, month, 1, 0)),
     end |-> DateStr(Datetime(year, month, DaysInMonth(year, month), 0))]

\* lines 511-528: the values all_data can have after the months 1..m
AllData[year \in {2024, 2025}, m \in 0..12] ==
    IF m = 0 THEN { <<>> }
    ELSE { a \o resp.rows : a \in AllData[year, m - 1],
                            resp \in DatedResponses(MonthWindow(year, m)) }

\* lines 443-474: the same loop over the years from 2024 to the current one
AllYearsData[year \in {2023, 2024, 2025}, current \in NowTimes] ==
    IF year < StartYear THEN { <<>> }
    ELSE { a \o b : a \in AllYearsData[year - 1, current],
                    b \in AllData[year, MaxMonth(year, current)] }

\* Lines 530-553 and 476-495: save all_data as it was fetched and upload it
\* under the master's name; the master already in the folder is not read
CreateMaster(p, all_data) ==
    /\ pc = "idle"
    /\ runs < MaxRuns
    /\ \E save_ok \in BOOLEAN :
        IF ~save_to_csv(all_data, save_ok)
        THEN /\ pc' = "done"
             /\ outcome' = "returned"
             /\ msgs' = IF all_data = <<>> THEN {"No data found"}
                        ELSE {"Failed to create master CSV"}
             /\ report' = {}
             /\ UNCHANGED master_file
        ELSE /\ pc' = "upload"
             /\ outcome' = "none"
             /\ msgs' = {"Master CSV created"}
             /\ report' = { <<"Master CSV created", Len(all_data)>> }
             /\ master_file' = File(all_data)
    /\ part' = p
    /\ path' = "rebuilt"
    /\ latest_data' = [ok |-> TRUE, rows |-> all_data]
    /\ runs' = runs + 1
    /\ UNCHANGED <<now, drive, cutoff_date, fetch_window, existing, fault>>
    /\ UNCHANGED otherVars

\* the values of all_data by the year and the clock reading of the run
YearTable ==
    UNION { { <<year, current, all_data>> :
                all_data \in AllData[year, MaxMonth(year, current)] } :
            year \in {2024, 2025}, current \in NowTimes }

create_master_csv_for_year(year) ==
    \E run \in YearTable :
        /\ run[1] = year
        /\ run[2] = now
        /\ CreateMaster(year, run[3])

\* the values of all_data by the clock reading of the run
AllYearsTable ==
    UNION { { <<current, all_data>> :
                all_data \in AllYearsData[YearOf(current), current] } :
            current \in NowTimes }

create_master_master_csv ==
    \E run \in AllYearsTable :
        /\ run[1] = now
        /\ CreateMaster(ALL, run[2])

update_master_csv_for_year_dated(year) ==
    UpdateYear(year, DatedResponses(FetchWindow(year, now)))

InitYear ==
    /\ now = Datetime(2025, 2, 5, 12)
    /\ drive = [p \in YearPartitions |-> NoFile]
    /\ pc = "idle"
    /\ part = ALL
    /\ cutoff_date = 0
    /\ fetch_window = [skip |-> FALSE, start |-> 0, end |-> 0]
    /\ latest_data = NoResponse
    /\ existing = NoFile
    /\ master_file = NoFile
    /\ path = "none"
    /\ fault = "none"
    /\ outcome = "none"
    /\ msgs = {}
    /\ runs = 0
    /\ report = {}
    /\ OtherInit

NextYear ==
    \/ AdvanceClock
    \/ \E year \in {2024, 2025} : update_master_csv_for_year_dated(year)
    \/ \E year \in {2024, 2025} : create_master_csv_for_year(year)
    \/ create_master_master_csv
    \/ Upload
    \/ Exit

SpecYear == InitYear /\ [][NextYear]_vars

----------------------------------------------------------------------------

Next ==
    \/ AdvanceClock
    \/ \E year \in Years : update_master_csv_for_year(year)
    \/ update_master_master_csv
    \/ Upload
    \/ Exit

Spec == Init /\ [][Next]_vars

\* test_auto_update.py, for the lists the two APIs can hold
InitLists ==
    /\ MergeInit
    /\ tools_data \in ListsOf(ApiTools)
    /\ users_data \in ListsOf(ApiUsers)
    /\ NoLists
    /\ BatchInit
    /\ FolderInit
    /\ MainInit
    /\ RaceInit
    /\ LateInit

NextLists ==
    \/ update_tool_list_from_api
    \/ load_tool_list
    \/ update_user_list_from_api
    \/ load_user_list

SpecLists == InitLists /\ [][NextLists]_vars

\* batch_upload_all_months, started at either clock reading
InitBatch ==
    /\ MergeInit
    /\ ListInit
    /\ FolderInit
    /\ MainInit
    /\ RaceInit
    /\ LateInit
    /\ batch_now \in BatchNows
    /\ BatchStart

NextBatch ==
    \/ batch_upload_month
    \/ batch_upload_summary

SpecBatch == InitBatch /\ [][NextBatch]_vars

\* upload_to_drive called again and again on a folder that starts with at
\* most one file of each name
InitFolder ==
    /\ MergeInit
    /\ ListInit
    /\ BatchInit
    /\ MainInit
    /\ RaceInit
    /\ LateInit
    /\ drive_files \in
          { {}, {DriveFile(1, "billing_data_2025_master.csv", 0)},
            {DriveFile(1, "billing_data_2025_master.csv", 0),
             DriveFile(2, "etcher_2025_01.xlsx", 0)} }
    /\ next_file_id = 3
    /\ upload_log = [n \in FileNames |-> NotUploaded]

NextFolder == upload_to_drive_call

SpecFolder == InitFolder /\ [][NextFolder]_vars

----------------------------------------------------------------------------
(* main of nemo_billing_to_drive.py, lines 630-707 *)

MainOrder ==
    << "fetch", "save", "authenticate", "folder", "upload", "cleanup",
       "update_year", "update_all" >>

StepAfter(step) ==
    IF step = "update_all" THEN "end"
    ELSE MainOrder[(CHOOSE i \in DOMAIN MainOrder : MainOrder[i] = step) + 1]

\* a main that goes on to the next step however the step ended
main_goes_on(step, how) == StepAfter(step)

\* Where main goes when a step has ended.  A step that returned what main
\* wants is followed by the next one.  Fetch and save without a result and
\* a raised authentication make main return (lines 661-679); a raise of
\* get_target_folder_path leaves main (line 682 is outside every try); a
\* raise from line 687 on is caught on line 702 and main ends.
main_goes(step, how) ==
    IF how = "returned" THEN StepAfter(step)
    ELSE IF step = "folder" THEN "raised"
    ELSE "end"

MainStep(step, how) ==
    /\ main_pc = step
    /\ main_steps' = Append(main_steps, <<step, how>>)
    /\ main_pc' = main_goes(step, how)

\* line 659
main_fetch_billing_data ==
    /\ \E how \in {"returned", "nodata"} : MainStep("fetch", how)
    /\ UNCHANGED monthly_file
    /\ UNCHANGED <<mergeVars, listVars, batchVars, folderVars, raceVars, lateVars>>

\* line 669
main_save_to_csv ==
    /\ \E how \in {"returned", "false"} :
        /\ MainStep("save", how)
        /\ monthly_file' = IF how = "returned" THEN "saved" ELSE "none"
    /\ UNCHANGED <<mergeVars, listVars, batchVars, folderVars, raceVars, lateVars>>

\* lines 674-679
main_authenticate_google_drive ==
    /\ \E how \in {"returned", "raised"} : MainStep("authenticate", how)
    /\ UNCHANGED monthly_file
    /\ UNCHANGED <<mergeVars, listVars, batchVars, folderVars, raceVars, lateVars>>

\* line 682
main_get_target_folder_path ==
    /\ \E how \in {"returned", "raised"} : MainStep("folder", how)
    /\ UNCHANGED monthly_file
    /\ UNCHANGED <<mergeVars, listVars, batchVars, folderVars, raceVars, lateVars>>

\* line 687
main_upload_to_drive ==
    /\ \E ok \in BOOLEAN, content \in Contents :
        /\ MainStep("upload", IF ok THEN "returned" ELSE "raised")
        /\ UploadFile(MonthlyName, content, ok)
    /\ UNCHANGED monthly_file
    /\ UNCHANGED <<mergeVars, listVars, batchVars, raceVars, lateVars>>

\* line 690: cleanup_local_file catches what os.remove raises
main_cleanup_local_file ==
    /\ MainStep("cleanup", "returned")
    /\ \E removed \in BOOLEAN :
        monthly_file' = IF removed THEN "none" ELSE monthly_file
    /\ UNCHANGED <<mergeVars, listVars, batchVars, folderVars, raceVars, lateVars>>

\* line 696: the call of update_master_csv_for_year(..., start_date.year, ...)
main_update_year ==
    /\ main_pc = "update_year"
    /\ \E y \in Years : update_master_csv_for_year(y)

\* line 700
main_update_all ==
    /\ main_pc = "update_all"
    /\ update_master_master_csv

\* The update function called on line 696 or 700 is left, by return or by
\* an exception
main_update_left ==
    /\ main_pc \in {"update_year", "update_all"}
    /\ ExitRun
    /\ MainStep(main_pc, IF outcome = "raised" THEN "raised" ELSE "returned")
    /\ UNCHANGED monthly_file
    /\ UNCHANGED <<listVars, batchVars, folderVars, raceVars, lateVars>>

\* the masters a run of main can find in the master folders
InitMain ==
    /\ now = Datetime(2025, 2, 5, 12)
    /\ drive \in { [p \in Partitions |-> NoFile],
                    [p \in Partitions |->
                        File(<<Rec(2, Iso(Datetime(2024, 12, 30, 10)), 1)>>)] }
    /\ pc = "idle"
    /\ part = ALL
    /\ cutoff_date = 0
    /\ fetch_window = [skip |-> FALSE, start |-> 0, end |-> 0]
    /\ latest_data = NoResponse
    /\ existing = NoFile
    /\ master_file = NoFile
    /\ path = "none"
    /\ fault = "none"
    /\ outcome = "none"
    /\ msgs = {}
    /\ runs = 0
    /\ report = {}
    /\ OtherInit

NextMain ==
    \/ main_fetch_billing_data
    \/ main_save_to_csv
    \/ main_authenticate_google_drive
    \/ main_get_target_folder_path
    \/ main_upload_to_drive
    \/ main_cleanup_local_file
    \/ main_update_year
    \/ main_update_all
    \/ Upload
    \/ main_update_left

SpecMain == InitMain /\ [][NextMain]_vars

\* two runs started in one working directory or in two
InitRace ==
    /\ MergeInit
    /\ ListInit
    /\ BatchInit
    /\ FolderInit
    /\ MainInit
    /\ remote_master = OldMaster
    /\ local_csv = [d \in Dirs |-> NoFile]
    /\ race_run \in { [p \in Runs |-> NotStarted(1)],
                  [p \in Runs |-> NotStarted(p)] }
    /\ last_upload_by = 0
    /\ LateInit

NextRace ==
    \E p \in Runs :
        \/ race_fetch(p)
        \/ race_list(p)
        \/ race_download(p)
        \/ race_read(p)
        \/ race_save(p)
        \/ race_upload(p)
        \/ race_cleanup(p)

SpecRace == InitRace /\ [][NextRace]_vars

\* The billing script run for the batch upload or for the year masters: one
\* entry point is run at a time
InitBilling ==
    /\ now = Datetime(2025, 2, 5, 12)
    /\ drive = [p \in YearPartitions |-> NoFile]
    /\ pc = "idle"
    /\ part = ALL
    /\ cutoff_date = 0
    /\ fetch_window = [skip |-> FALSE, start |-> 0, end |-> 0]
    /\ latest_data = NoResponse
    /\ existing = NoFile
    /\ master_file = NoFile
    /\ path = "none"
    /\ fault = "none"
    /\ outcome = "none"
    /\ msgs = {}
    /\ runs = 0
    /\ report = {}
    /\ ListInit
    /\ BatchInit
    /\ FolderInit
    /\ MainInit
    /\ RaceInit
    /\ bill_now \in BatchNows
    /\ BillStart
    /\ DirInit
    /\ UsageInit
    /\ TimerInit

NextBilling ==
    \/ bill_pc = "idle" /\ AdvanceClock
    \/ bill_pc = "idle" /\ \E year \in {2024, 2025} :
                                update_master_csv_for_year_dated(year)
    \/ bill_pc = "idle" /\ \E year \in {2024, 2025} :
                                create_master_csv_for_year(year)
    \/ bill_pc = "idle" /\ create_master_master_csv
    \/ bill_pc = "idle" /\ Upload
    \/ bill_pc = "idle" /\ Exit
    \/ pc = "idle" /\ runs = 0 /\ batch_upload_all_months
    \/ bill_month_pass
    \/ batch_upload_complete

SpecBilling == InitBilling /\ [][NextBilling]_vars

\* get_target_folder_path called for some years and months
InitDirs == MergeInit /\ OtherInit

NextDirs == get_target_folder_path_call

SpecDirs == InitDirs /\ [][NextDirs]_vars

\* process_month of usage_questions.py for the tool names of a month
InitUsage ==
    /\ MergeInit
    /\ ListInit
    /\ BatchInit
    /\ FolderInit
    /\ MainInit
    /\ RaceInit
    /\ BillInit
    /\ DirInit
    /\ tool_groups \in ToolGroups
    /\ UsageStart
    /\ TimerInit

NextUsage ==
    \/ usage_no_data
    \/ usage_tool_group
    \/ usage_return

SpecUsage == InitUsage /\ [][NextUsage]_vars

\* check_privileges; both threads are scheduled again and again, and the
\* request returns or raises
InitTimer == MergeInit /\ OtherInit /\ check_pc = "start"

NextTimer ==
    \/ check_start
    \/ check_request
    \/ check_set
    \/ check_join
    \/ check_report
    \/ timer_while
    \/ timer_print

SpecTimer ==
    /\ InitTimer
    /\ [][NextTimer]_vars
    /\ WF_vars(check_start)
    /\ WF_vars(check_request)
    /\ WF_vars(check_set)
    /\ WF_vars(check_join)
    /\ WF_vars(check_report)
    /\ WF_vars(timer_while)
    /\ WF_vars(timer_print)

----------------------------------------------------------------------------
(* Vocabulary of the properties *)

Rows(f) == { f[i] : i \in DOMAIN f }

\* The start cell as the merge rewrites it
Normalised(r) == [r EXCEPT !.start = FormatStart(ParseStart(@))]
NormalisedSeq(f) == [i \in DOMAIN f |-> Normalised(f[i])]

ValidStart(r) == ParseStart(r.start) # NaT

\* In replace scope: the start parses and is at or after the window start
InReplaceScope(r, window_start) ==
    ValidStart(r) /\ ParseStart(r.start) >= window_start

OutOfScope(f, window_start) ==
    SelectSeq(f, LAMBDA r : ~InReplaceScope(r, window_start))

\* The first occurrence of every row, in order
RECURSIVE FirstOccurrences(_, _)
FirstOccurrences(f, seen) ==
    IF f = <<>> THEN <<>>
    ELSE IF Head(f) \in seen THEN FirstOccurrences(Tail(f), seen)
    ELSE <<Head(f)>> \o FirstOccurrences(Tail(f), seen \cup {Head(f)})

\* A run that found the master, has a non-empty batch and has saved its
\* combined table
Saved == pc = "upload"
MergeRun == Saved /\ path = "merged"
FallbackRun == Saved /\ path = "fallback"

----------------------------------------------------------------------------
(* C1 *)

----------------------------------------------------------------------------
(* C2 *)

\* C2: after a merge with a non-empty batch, an existing row in replace
\* scope is in the result only if the fresh batch holds a row equal to it
\* in every field (rows compared as the merge compares them, by the parsed
\* start).
C2_ReplacedRowsGone ==
    (Saved /\ existing.exists) =>
        \A i \in DOMAIN existing.rows :
            /\ InReplaceScope(existing.rows[i], cutoff_date)
            /\ Normalised(existing.rows[i])
                   \in Rows(NormalisedSeq(master_file.rows))
            => Normalised(existing.rows[i])
                   \in Rows(NormalisedSeq(latest_data.rows))

\* A merge that dropped an in-scope row and kept another one because the
\* batch holds it again
C2_Witness ==
    /\ MergeRun
    /\ \E i \in DOMAIN existing.rows :
        /\ InReplaceScope(existing.rows[i], cutoff_date)
        /\ Normalised(existing.rows[i])
               \notin Rows(NormalisedSeq(master_file.rows))
    /\ \E i \in DOMAIN existing.rows :
        /\ InReplaceScope(existing.rows[i], cutoff_date)
        /\ Normalised(existing.rows[i])
               \in Rows(NormalisedSeq(master_file.rows))

----------------------------------------------------------------------------
(* C3 *)

InvalidCount(f) == Cardinality({ i \in DOMAIN f : ~ValidStart(f[i]) })

\* C3: the rows of the existing master whose start does not parse are all
\* in the merge result, as many as they were in the existing table.
C3_InvalidRowsCountPreserved ==
    MergeRun => InvalidCount(master_file.rows) >= InvalidCount(existing.rows)

----------------------------------------------------------------------------
(* C4 *)

Occurrences(f, r) == Cardinality({ i \in DOMAIN f : f[i] = r })

\* The same rows, each as often: tables compared by their parsed rows
SameTable(f, g) ==
    /\ Len(f) = Len(g)
    /\ \A r \in Rows(NormalisedSeq(f)) \cup Rows(NormalisedSeq(g)) :
        Occurrences(NormalisedSeq(f), r) = Occurrences(NormalisedSeq(g), r)

Uploaded == pc = "done" /\ "Master CSV uploaded successfully" \in msgs

\* C4: merging the same batch with the same window into the table a merge
\* has just persisted yields the same table.
C4_MergeIdempotent ==
    Uploaded =>
        SameTable(to_csv(merge_frames(drive[part].rows, latest_data.rows,
                                      cutoff_date)),
                  drive[part].rows)

----------------------------------------------------------------------------
(* C5 *)

\* The step of a run that has fetched and got nothing
EmptyFetch ==
    /\ runs' = runs + 1
    /\ path' # "skip"
    /\ (latest_data' = NoResponse \/ Len(latest_data'.rows) = 0)

\* C5 as stated: a merge whose batch is empty reports an error to its
\* caller.
C5_EmptyBatchRaises ==
    (pc = "done" /\ path = "nodata") => outcome = "raised"

\* C5 amended: when the fetched batch is empty or the fetch returned
\* nothing, the merge prints "No new data found" and returns normally (its
\* caller is told nothing), and the persisted master is left exactly as it
\* was: nothing is downloaded over it, written or uploaded.
C5_EmptyBatchLeavesMaster ==
    [][EmptyFetch =>
           /\ pc' = "done"
           /\ path' = "nodata"
           /\ outcome' = "returned"
           /\ msgs' = {"No new data found"}
           /\ drive' = drive
           /\ master_file' = master_file
           /\ existing' = NoFile]_vars

\* An empty list was fetched while the master exists
C5_Witness ==
    /\ pc = "done"
    /\ path = "nodata"
    /\ latest_data.ok
    /\ drive[part].exists

----------------------------------------------------------------------------
(* C6 *)

NoDuplicateRows(f) ==
    \A i, j \in DOMAIN f : i # j => f[i] # f[j]

\* C6: no persisted master table holds two rows that agree in every field.
C6_NoDuplicateRowsPersisted ==
    \A p \in Partitions : NoDuplicateRows(drive[p].rows)

----------------------------------------------------------------------------
(* C7 *)

Dropped(r) == Normalised(r) \notin Rows(master_file.rows)

\* C7 as stated, the target year being the year of the run (the one main
\* passes to update_master_csv_for_year): a row of another year stays in
\* the all-years table even when its start is at or after the window start.
C7_OtherYearsRetained ==
    (MergeRun /\ part = ALL) =>
        \A i \in DOMAIN existing.rows :
            /\ ValidStart(existing.rows[i])
            /\ YearOf(ParseStart(existing.rows[i].start)) # YearOf(now)
            => ~Dropped(existing.rows[i])

\* C7 amended: update_master_master_csv has no partition key; an existing
\* row of the all-years table is dropped exactly when its parsed start is at
\* or after the window start (and the batch does not hold it again),
\* whatever its year.
C7_DroppedByWindowOnly ==
    (MergeRun /\ part = ALL) =>
        \A i \in DOMAIN existing.rows :
            Dropped(existing.rows[i]) <=>
                /\ InReplaceScope(existing.rows[i], cutoff_date)
                /\ Normalised(existing.rows[i])
                       \notin Rows(NormalisedSeq(latest_data.rows))

\* A row of the year before the run's year was dropped from the all-years
\* table
C7_Witness ==
    /\ MergeRun
    /\ part = ALL
    /\ \E i \in DOMAIN existing.rows :
        /\ InReplaceScope(existing.rows[i], cutoff_date)
        /\ YearOf(ParseStart(existing.rows[i].start)) # YearOf(now)
        /\ Dropped(existing.rows[i])

----------------------------------------------------------------------------
(* C8 *)

\* C8: a failed fetch or a failed upload leaves the remote master as it was;
\* the remote file changes only in a completed upload, and then to the whole
\* combined table that was saved.
C8_RemoteChangesOnlyByCompletedUpload ==
    [][/\ drive' # drive =>
            /\ pc = "upload"
            /\ master_file.exists
            /\ "Master CSV uploaded successfully" \in msgs'
            /\ drive' = [drive EXCEPT ![part] = File(master_file.rows)]
       /\ "Error uploading master CSV" \in msgs' => drive' = drive
       /\ EmptyFetch => drive' = drive]_vars

\* An upload failed: the remote master holds its old rows, the new table is
\* only in the local file
C8_Witness ==
    /\ pc = "done"
    /\ "Error uploading master CSV" \in msgs
    /\ drive[part].exists
    /\ master_file.exists
    /\ drive[part].rows # master_file.rows

----------------------------------------------------------------------------
(* C9 *)

\* C9: the fallback to the fresh batch alone is reported, and it is taken
\* only when the existing file could not be read.
C9_FallbackOnlyOnReadError ==
    FallbackRun =>
        /\ "Error reading existing CSV, creating new one" \in msgs
        /\ fault = "read_csv"

----------------------------------------------------------------------------
(* C10 *)

\* C10: every master table holds at most one record per item_id.
C10_OneRecordPerItemId ==
    \A p \in Partitions :
        \A i, j \in DOMAIN drive[p].rows :
            (i # j /\ drive[p].rows[i] # drive[p].rows[j])
                => drive[p].rows[i].item_id # drive[p].rows[j].item_id

----------------------------------------------------------------------------
(* C11 *)

\* C11 as stated: a master that exists is changed by merges only, so no step
\* of a run of create_master_csv_for_year or create_master_master_csv
\* changes the rows of a master already in the folder.
C11_OnlyMergesChangeMaster ==
    [][\A p \in DOMAIN drive :
          drive[p].exists /\ drive'[p] # drive[p] => path # "rebuilt"]_vars

\* C11, amended: a master is never deleted and changes only in the upload step
\* of a run, which is a run of an update function or of a create function;
\* the upload of a create run replaces whatever the master held by the rows
\* the run fetched for the months of its years.
C11_MasterChangesByUploadOfUpdateOrCreate ==
    [][\A p \in DOMAIN drive :
          /\ drive[p].exists => drive'[p].exists
          /\ drive'[p] # drive[p] =>
                /\ pc = "upload" /\ p = part
                /\ path \in {"created", "merged", "fallback", "rebuilt"}
                /\ path = "rebuilt" => drive'[p].rows = latest_data.rows]_vars

\* a create run has uploaded over a master that was already in the folder
C11_Witness ==
    /\ pc = "done"
    /\ path = "rebuilt"
    /\ "File updated in Google Drive" \in msgs
    /\ drive[part].rows = latest_data.rows
    /\ Len(drive[part].rows) > 0

----------------------------------------------------------------------------
(* C12 *)

Printed(label) == { e[2] : e \in { x \in report : x[1] = label } }

----------------------------------------------------------------------------
(* C13 *)

\* C13: the query and the filter use one window (every fetched row starts
\* at or after cutoff_date), so no row the merge keeps from the existing
\* master is an older version (same item_id, other content) of a row of the
\* fetched batch.
C13_NoStaleVersionRetained ==
    MergeRun =>
        \A e \in Rows(existing.rows), f \in Rows(latest_data.rows) :
            e.item_id = f.item_id /\ e.amount # f.amount
                => Normalised(e) \notin Rows(master_file.rows)

----------------------------------------------------------------------------
(* C14 *)

ValidTools == { t \in Rows(tools_data) : t.id # 0 /\ t.name # "" }
ValidUsers == { u \in Rows(users_data) : u.id # 0 /\ u.username # "" }

\* what load_user_list makes of a user whose fields are the API's texts
UserEntry(u) ==
    [username |-> Str(u.username),
     full_name |-> IF u.first_name # "" \/ u.last_name # ""
                   THEN FullName(Str(u.first_name), Str(u.last_name))
                   ELSE Str(u.username),
     email |-> Str(u.email)]

\* C14: once update_tool_list_from_api has returned True, load_tool_list
\* returns id -> name for exactly the tools the API returned with an id and
\* a name, whatever the API returned; and likewise for the user list.
C14_ListRoundTrip ==
    /\ tools_updated /\ tool_mapping.loaded =>
          /\ { e[1] : e \in tool_mapping.map } = { t.id : t \in ValidTools }
          /\ \A e \in tool_mapping.map :
                \E t \in ValidTools : e = <<t.id, Str(t.name)>>
    /\ users_updated /\ user_mapping.loaded =>
          /\ { e[1] : e \in user_mapping.map } = { u.id : u \in ValidUsers }
          /\ \A e \in user_mapping.map :
                \E u \in ValidUsers : e = <<u.id, UserEntry(u)>>

----------------------------------------------------------------------------
(* C15 *)

\* the months from January 2024 to the month of t, in order
MonthsThrough(t) ==
    [i \in 1..((YearOf(t) - 2024) * 12 + MonthOf(t)) |->
        <<2024 + (i - 1) \div 12, ((i - 1) % 12) + 1>>]

\* C15: whatever the fetch of a month returns, the batch upload goes on to
\* the next month, and when it ends it has processed every month from
\* January 2024 to the current one once, in order, and prints its summary.
C15_EveryMonthProcessed ==
    /\ batch_pc # "TypeError"
    /\ batch_pc = "summary" =>
          /\ processed = MonthsThrough(batch_now)
          /\ total_months_processed = Len(processed)

----------------------------------------------------------------------------
(* C16 *)

\* C16: by a single writer and from a folder with at most one file of the
\* name, upload_to_drive overwrites: once a call for a filename has returned
\* the folder holds exactly one file of that name, every call returned the
\* same id, which is that file's, and the file holds the last upload.
C16_UploadOverwrites ==
    \A filename \in FileNames :
        upload_log[filename].n > 0 =>
            \E f \in drive_files :
                /\ { g \in drive_files : g.name = filename } = {f}
                /\ upload_log[filename].ids = {f.id}
                /\ f.content = upload_log[filename].content

\* a file that was in the folder at the start has been uploaded twice
C16_Witness ==
    \E f \in drive_files :
        /\ f.id = 1
        /\ upload_log[f.name].n >= 2
        /\ f.content = 2

----------------------------------------------------------------------------
(* C17 *)

\* C17: whatever runs of create_master_csv_for_year and
\* update_master_csv_for_year there have been, every row of the master of a
\* year whose start is a timestamp starts in that calendar year.
C17_YearMasterHoldsItsYear ==
    \A y \in {2024, 2025} :
        \A r \in Rows(drive[y].rows) :
            ValidStart(r) => YearOf(ParseStart(r.start)) = y

----------------------------------------------------------------------------
(* C18 *)

AllReturned == \A i \in DOMAIN main_steps : main_steps[i][2] = "returned"

\* C18: main takes its steps in the order fetch, save, authenticate, (target
\* folder,) upload, cleanup, year master, all-years master, each at most
\* once; a step is taken only when every step before it returned, so the
\* year master update runs only after the monthly upload returned and the
\* all-years update only after the year master update returned.
C18_StepsInOrder ==
    /\ Len(main_steps) <= Len(MainOrder)
    /\ \A i \in DOMAIN main_steps : main_steps[i][1] = MainOrder[i]
    /\ \A i \in DOMAIN main_steps :
          i < Len(main_steps) => main_steps[i][2] = "returned"
    /\ main_pc \notin {"end", "raised"} =>
          AllReturned /\ main_pc = MainOrder[Len(main_steps) + 1]
    /\ pc # "idle" =>
          /\ AllReturned
          /\ part \in Years => Len(main_steps) = 6
          /\ part = ALL => Len(main_steps) = 7

\* the download of the existing year master failed, and main ended without
\* the all-years update
C18_Witness ==
    /\ main_pc = "end"
    /\ Len(main_steps) = 7
    /\ main_steps[7] = <<"update_year", "raised">>
    /\ runs = 1

----------------------------------------------------------------------------
(* C19 *)

\* C19: a run of update_master_csv_for_year for a year whose last day lies
\* before the 40-day cutoff fetches, downloads and uploads nothing and
\* leaves the master as it is; and the window of a past year that is not
\* skipped is never the whole year.
C19_PastYearSkippedOrPartial ==
    [][pc = "idle" /\ pc' # "idle" /\ path' # "rebuilt"
           /\ part' \in {2024, 2025} =>
         /\ Datetime(part' + 1, 1, 1, 0) <= Cutoff(now) =>
               /\ pc' = "done"
               /\ path' = "skip"
               /\ drive' = drive
               /\ latest_data' = NoResponse
               /\ existing' = NoFile
               /\ master_file' = NoFile
         /\ part' < YearOf(now) /\ path' # "skip" =>
               ~ /\ fetch_window'.start = DateStr(Datetime(part', 1, 1, 0))
                 /\ fetch_window'.end = DateStr(Datetime(part', 12, 31, 0))]_vars

\* the update of 2024 was skipped and the 2024 master is still in the folder
C19_Witness ==
    /\ pc = "done"
    /\ path = "skip"
    /\ part = 2024
    /\ Datetime(2025, 1, 1, 0) <= Cutoff(now)
    /\ drive[2024].exists

----------------------------------------------------------------------------
(* C20 *)

\* the table a run makes of the master it downloaded and its batch
OwnTable(p) ==
    IF race_run[p].found
    THEN to_csv(merge_frames(race_run[p].downloaded.rows, race_run[p].latest,
                             Cutoff(now)))
    ELSE race_run[p].latest

\* C20: two runs of update_master_csv_for_year for one year share nothing
\* but the remote file, so when both have ended the remote master is the
\* table of the run that uploaded last, made from the master that run
\* downloaded and its own batch.
C20_LastWriteWins ==
    (\A p \in Runs : race_run[p].pc = "done") =>
        /\ last_upload_by \in Runs
        /\ remote_master.rows = OwnTable(last_upload_by)

----------------------------------------------------------------------------
(* C21 *)

\* C21: a local file is deleted only after its upload returned.  When the
\* upload of process_month or of a master function raised, the error is
\* printed, the function has returned to its caller, and the local file is
\* still there; a saved file that is gone was uploaded.
C21_CleanupOnlyAfterUpload ==
    /\ "Error uploading" \in bill_msgs =>
          /\ bill_file.exists
          /\ bill_calls # <<>>
          /\ bill_pc \in {"loop", "complete", "HttpError"}
    /\ ("Data saved" \in bill_msgs /\ ~bill_file.exists) =>
          "Uploaded and cleaned up" \in bill_msgs
    /\ (pc = "done" /\ "Error uploading master CSV" \in msgs) =>
          /\ master_file.exists
          /\ outcome = "returned"
    /\ (/\ pc = "done"
        /\ msgs \cap {"Master CSV updated", "Master CSV created"} # {}
        /\ ~master_file.exists) =>
          "Master CSV uploaded successfully" \in msgs

\* the upload of a month file raised, and the upload of a master raised
C21_Witness ==
    \/ "Error uploading" \in bill_msgs /\ bill_file.exists
    \/ pc = "done" /\ "Error uploading master CSV" \in msgs
                   /\ master_file.exists

----------------------------------------------------------------------------
(* C22 *)

\* the number of the loop's month, January 2024 being 1
MonthIndex(year, month) == (year - 2024) * 12 + month

\* C22: the billing batch loop calls process_month once for each month from
\* January 2024 on, in order, December followed by January of the next
\* year, and at most through the current month; whatever a call printed,
\* the loop stands at the month after it; when the script prints "Batch
\* upload complete" every month through the current one was processed.
C22_EveryMonthOnce ==
    /\ Len(bill_calls) <= Len(MonthsThrough(bill_now))
    /\ \A i \in DOMAIN bill_calls : bill_calls[i] = MonthsThrough(bill_now)[i]
    /\ bill_month \in 1..12
    /\ MonthIndex(bill_year, bill_month) = Len(bill_calls) + 1
    /\ bill_pc = "complete" => bill_calls = MonthsThrough(bill_now)

\* a batch of 2025 has ended after a month without data and a failed upload
C22_Witness ==
    /\ bill_pc = "complete"
    /\ YearOf(bill_now) = 2025
    /\ Len(bill_calls) = 13
    /\ "Error uploading" \in bill_msgs

----------------------------------------------------------------------------
(* C23 *)

\* the folders that are the month folder of a year and month
MonthFolders(year, month) ==
    { m \in folders :
        /\ m.name = MonthFolderName(month)
        /\ \E y \in folders, u \in folders :
              /\ y.parent = SharedDrive /\ y.name = YearFolderName(year)
              /\ u.parent = y.id /\ u.name = "Usage_Events"
              /\ m.parent = u.id }

\* C23: by a single writer and from an empty drive, the drive never holds
\* two folders of one name under one parent, and get_target_folder_path
\* returns for a year and month the same id on every call, which is the id
\* of the month folder under Usage_Events under the year's folder.
C23_FolderLookupIdempotent ==
    /\ \A f, g \in folders :
          (f.parent = g.parent /\ f.name = g.name) => f = g
    /\ \A k \in FolderKeys :
          \A i \in DOMAIN returned_ids[k] :
              /\ returned_ids[k][i] = returned_ids[k][1]
              /\ \E m \in MonthFolders(k[1], k[2]) : m.id = returned_ids[k][i]

\* two months of one year were looked up, one of them twice, after a
\* lookup that failed half way
C23_Witness ==
    /\ Len(returned_ids[<<2024, 1>>]) = 2
    /\ Len(returned_ids[<<2024, 2>>]) = 1
    /\ \E f \in folders : f.name = "2025"
    /\ MonthFolders(2025, 1) = {}

----------------------------------------------------------------------------
(* C24 *)

\* C24: when the usage-events process_month has returned its total, the
\* month folder holds as many files as the total says: each tool group
\* whose upload returned has a file of its own.
C24_OneFilePerToolGroup ==
    usage_pc = Len(tool_groups) + 1 =>
        Cardinality(month_files) = month_total

----------------------------------------------------------------------------
(* C25 *)

OutcomeLines == { OutcomeLine(o) : o \in RequestOutcomes }

\* the outcome is reported only with the stop event set and the timer
\* thread ended, no "...waiting" line follows the outcome line, and the
\* timer thread is not running when the function has returned
TimerStoppedBeforeReport ==
    /\ (check_pc = "report" \/ \E i \in DOMAIN console :
                                  console[i] \in OutcomeLines) =>
          stop_event /\ timer_pc = "ended"
    /\ \A i, j \in DOMAIN console :
          (i < j /\ console[i] \in OutcomeLines) => console[j] # "...waiting"
    /\ check_pc = "returned" => timer_pc \in {"not started", "ended"}

\* C25: on every outcome of the request check_privileges sets the stop
\* event and joins the timer thread before it reports the outcome, so no
\* "...waiting" line follows the outcome line and the timer thread does not
\* outlive the function; and the function returns.
C25_TimerJoinedAndReturns ==
    /\ []TimerStoppedBeforeReport
    /\ <>(check_pc = "returned")

\* the request timed out after the timer had printed, and the outcome line
\* is the last line
C25_Witness ==
    /\ check_pc = "returned"
    /\ request_outcome = "Timeout"
    /\ Len(console) >= 2
    /\ console[1] = "...waiting"
    /\ console[Len(console)] = OutcomeLine("Timeout")

====
